---- MODULE Spec2Model ----
(***************************************************************************)
(* markdown2html.py: the line loop that turns a Markdown file into HTML.   *)
(*                                                                         *)
(* A string is a sequence of one-character strings.  Every HTML tag the   *)
(* program writes ("<ul>", "<li>", "<b>", "<br/>", ...) is kept as ONE     *)
(* element of the sequence: the input alphabet has no "<" and no ">", so   *)
(* the sequence determines the text, and a tag, like the characters it     *)
(* stands for, is matched by the regular expression's "." and never by a   *)
(* delimiter.  The output file is the sequence of the strings written, one *)
(* per outfile.write call.                                                 *)
(***************************************************************************)
EXTENDS Integers, Sequences, FiniteSets

VARIABLES
    pc,                 \* "args": line 56; "input": line 65; "open": line 70;
                        \* "loop": in the for loop (line 76); "done": after line
                        \* 140; "exited": the process has ended
    argc,               \* the number of arguments given: len(sys.argv) - 1
    input_exists,       \* os.path.exists(input_file)
    outfile_state,      \* "untouched", or "open", "closed" once open() made it
    stderr,             \* the messages printed to sys.stderr, by their first word
    exit_code,          \* <<>> while the process runs, then <<its exit code>>
    infile,             \* the raw lines read so far, in file order
    in_unordered_list,  \* line 72
    in_ordered_list,    \* line 73
    paragraph_content,  \* line 74
    out,                \* the strings written to outfile, in order
    \* history variables: they record what the program did, it never reads them
    trace,              \* trace[k]: the state just before line k was processed
    para_src,           \* for each fragment of paragraph_content, its line number
    out_src,            \* for each string of out, the line numbers of its text
    pushed,             \* every fragment ever appended to paragraph_content
    raised              \* every exception raised inside the try block (line 69)

\* what the line loop never touches
io == <<argc, input_exists, outfile_state, stderr, exit_code, raised>>

vars == <<pc, infile, in_unordered_list, in_ordered_list, paragraph_content,
          out, trace, para_src, out_src, pushed, io>>

----------------------------------------------------------------------------
(* Bounds *)

MaxLines == 4       \* lines of a file under Spec
MaxContent == 7     \* characters of a content string under SpecLine
MaxHashes == 8      \* leading '#' of a heading line under SpecLine
MaxArgs == 3        \* arguments on the command line under SpecMain
MaxMainLines == 3   \* lines of a file under SpecMain

----------------------------------------------------------------------------
(* Characters and strings *)

NL == "\n"
SP == " "
\* The characters str.strip() removes (those str.isspace() accepts) that a
\* string of this module can hold: the six ASCII whitespace characters, the
\* separators U+001C..U+001F, NEL (U+0085) and the no-break space (U+00A0).
\* The spaces beyond U+00FF cannot be written in a string here, so no line of
\* the model holds one.
Whitespace ==
    {SP, NL, "\t", "\r", "\f", "", "", "", "", "", "", " "}

\* The whitespace a line can hold before its newline: the file is read in text
\* mode (line 70), where "\r" ends a line as "\n" does
Blank == Whitespace \ {NL, "\r"}

Min(S) == CHOOSE x \in S : \A y \in S : x <= y
Max(S) == CHOOSE x \in S : \A y \in S : x >= y

\* str.strip()
Strip(s) ==
    LET keep == {i \in 1..Len(s) : s[i] \notin Whitespace}
    IN  IF keep = {} THEN <<>> ELSE SubSeq(s, Min(keep), Max(keep))

\* str.startswith(p)
StartsWith(s, p) == Len(s) >= Len(p) /\ SubSeq(s, 1, Len(p)) = p

\* line.split(' ')[0]
FirstToken(s) ==
    LET sp == {i \in 1..Len(s) : s[i] = SP}
    IN  IF sp = {} THEN s ELSE SubSeq(s, 1, Min(sp) - 1)

\* faulty variant: the slice starts one character early
FromOneEarly(s, n) == SubSeq(s, n, Len(s))

\* line[n:]
From(s, n) == SubSeq(s, n + 1, Len(s))

\* str.find(d + d): the first index of the two-character delimiter dd, 0 if none
Find(s, d) ==
    LET at == {i \in 1..(Len(s) - 1) : s[i] = d /\ s[i + 1] = d}
    IN  IF at = {} THEN 0 ELSE Min(at)

\* faulty variant: the replacement is not made
ReplaceFirstDropped(s, d, tag) == s

\* str.replace(d + d, tag, 1)
ReplaceFirst(s, d, tag) ==
    LET i == Find(s, d)
    IN  IF i = 0 THEN s
        ELSE SubSeq(s, 1, i - 1) \o <<tag>> \o SubSeq(s, i + 2, Len(s))

\* The match of  dd(.+?)dd  that starts at index i: the index of its closing
\* delimiter, 0 if there is no match at i.  "." matches anything but a newline.
MatchEnd(s, i, d) ==
    IF i + 1 <= Len(s) /\ s[i] = d /\ s[i + 1] = d
    THEN LET ends == {q \in (i + 3)..(Len(s) - 1) :
                         /\ s[q] = d /\ s[q + 1] = d
                         /\ \A j \in (i + 2)..(q - 1) : s[j] # NL}
         IN  IF ends = {} THEN 0 ELSE Min(ends)
    ELSE 0

RECURSIVE ReSubFrom(_, _, _, _, _)
ReSubFrom(s, i, d, open, close) ==
    IF i > Len(s) THEN <<>>
    ELSE LET q == MatchEnd(s, i, d)
         IN  IF q = 0
             THEN <<s[i]>> \o ReSubFrom(s, i + 1, d, open, close)
             ELSE <<open>> \o SubSeq(s, i + 2, q - 1) \o <<close>>
                    \o ReSubFrom(s, q + 2, d, open, close)

\* re.sub(r'dd(.+?)dd', r'<open>\1<close>', s): every match, left to right
ReSub(s, d, open, close) == ReSubFrom(s, 1, d, open, close)

\* convert_line_to_html(line)
convert_line_to_html(line) ==
    ReSub(ReSub(line, "*", "<b>", "</b>"), "_", "<em>", "</em>")

\* lines 124-125: the positional replace of the paragraph branch
ParagraphInline(line) ==
    LET first == ReplaceFirst(ReplaceFirst(line, "*", "<b>"), "_", "<em>")
    IN  ReplaceFirst(ReplaceFirst(first, "*", "</b>"), "_", "</em>")

\* ' '.join(parts)
RECURSIVE Join(_)
Join(parts) ==
    IF parts = <<>> THEN <<>>
    ELSE IF Len(parts) = 1 THEN parts[1]
    ELSE parts[1] \o <<SP>> \o Join(Tail(parts))

----------------------------------------------------------------------------
(* What the program writes *)

HOpen(n) == <<"<h1>", "<h2>", "<h3>", "<h4>", "<h5>", "<h6>">>[n]
HClose(n) == <<"</h1>", "</h2>", "</h3>", "</h4>", "</h5>", "</h6>">>[n]

UlOpen == <<"<ul>", NL>>
UlClose == <<"</ul>", NL>>
OlOpen == <<"<ol>", NL>>
OlClose == <<"</ol>", NL>>

\* f"<h{heading_level}>{heading_content}</h{heading_level}>\n"
HeadingHtml(level, content) == <<HOpen(level)>> \o content \o <<HClose(level), NL>>

\* f"<li>{list_item_html}</li>\n"
ItemHtml(html) == <<"<li>">> \o html \o <<"</li>", NL>>

\* f"<p>{paragraph_text}</p>\n"
ParagraphHtml(text) == <<"<p>">> \o text \o <<"</p>", NL>>

\* faulty variant: the pending paragraph is never written
FlushParagraphNothing(content) == <<>>

\* lines 82-85 and 133-135: the strings written for the pending paragraph
FlushParagraph(content) ==
    IF content # <<>> THEN <<ParagraphHtml(Strip(Join(content)))>> ELSE <<>>

\* faulty variant: an open <ol> is not closed
CloseListsUnorderedOnly(ul, ol) == IF ul THEN <<UlClose>> ELSE <<>>

\* lines 87-92 and 137-140: the strings written to close the open lists
CloseLists(ul, ol) ==
    (IF ul THEN <<UlClose>> ELSE <<>>) \o (IF ol THEN <<OlClose>> ELSE <<>>)

\* faulty variant: the opening tag is written for every item
OpenListAlways(open, tag) == <<tag>>

\* lines 105-106 and 115-116: the opening tag, written unless the list is open
OpenList(open, tag) == IF open THEN <<>> ELSE <<tag>>

\* list.append
Push(buffer, x) == Append(buffer, x)

\* lines 126-130: the fragment appended for a paragraph line
Fragment(content, line) == IF content # <<>> THEN <<"<br/>">> \o line ELSE line

\* Of no text: the provenance of a string that holds tags only
NoSrc(strings) == [i \in 1..Len(strings) |-> <<>>]

----------------------------------------------------------------------------
(* Inputs *)

\* The lines a file is made of under Spec
FileLines ==
    { <<NL>>,
      <<"\t", NL>>,
      <<"#", SP, "a", NL>>,
      <<"#", "#", "#", "#", "#", "#", "#", SP, "a", NL>>,
      <<"-", SP, "a", NL>>,
      <<"-", SP, "b", NL>>,
      <<"*", SP, "a", NL>>,
      <<"a", NL>>,
      <<"b", NL>> }

StringsOver(alphabet, n) == UNION {[1..k -> alphabet] : k \in 0..n}

\* Content strings: every string over the two delimiters and a letter
Contents == StringsOver({"*", "_", "a"}, MaxContent)

Hashes(n) == [i \in 1..n |-> "#"]

HeadContents == {<<>>, <<"a">>, <<"a", SP, "b">>, <<"#", "a">>}

\* n '#', a space and X
HashLine(n, X) == Hashes(n) \o <<SP>> \o X

\* Nothing, or one whitespace character, at an end of a line
Margins == {<<>>} \cup {<<w>> : w \in Blank}

\* One line of each kind, with a space or a tab after its marker
Bodies ==
    { <<>>, <<"a">>,
      <<"#", SP, "a">>, <<"#", "\t", "a">>, <<"#", SP, "\t", "a">>,
      <<"-", SP, "a">>, <<"-", "\t", "a">>, <<"-", SP, "\t", "a">>,
      <<"*", SP, "a">>, <<"*", "\t", "a">>, <<"*", SP, "\t", "a">> }

\* The lines of a one-line file under SpecLine
LineInputs ==
    {pre \o c \o <<NL>> : pre \in {<<>>, <<"-", SP>>, <<"*", SP>>}, c \in Contents}
    \cup {lead \o HashLine(n, X) \o <<NL>> :
            lead \in {<<>>, <<SP>>}, n \in 1..MaxHashes, X \in HeadContents}
    \cup {Hashes(n) \o X \o <<NL>> : n \in 1..MaxHashes, X \in {<<>>, <<"a">>}}
    \cup {lead \o body \o trail \o <<NL>> :
            lead \in Margins, body \in Bodies, trail \in Margins}

----------------------------------------------------------------------------
(* The program *)

\* lines 72-74, and nothing read or written yet
Fresh ==
    /\ infile = <<>>
    /\ in_unordered_list = FALSE
    /\ in_ordered_list = FALSE
    /\ paragraph_content = <<>>
    /\ out = <<>>
    /\ trace = <<>>
    /\ para_src = <<>>
    /\ out_src = <<>>
    /\ pushed = <<>>

\* The conversion of an existing input file, from the top of the line loop
Init ==
    /\ pc = "loop"
    /\ argc = 2
    /\ input_exists = TRUE
    /\ outfile_state = "open"
    /\ stderr = <<>>
    /\ exit_code = <<>>
    /\ raised = <<>>
    /\ Fresh

Snapshot ==
    [ul |-> in_unordered_list, ol |-> in_ordered_list,
     para |-> paragraph_content, nout |-> Len(out)]

\* line 76: the loop takes the next line of the file
Read(raw) ==
    /\ infile' = Append(infile, raw)
    /\ trace' = Append(trace, Snapshot)

\* the number of the line being processed
LineNo == Len(infile) + 1

\* faulty variant: level 6 is refused
ValidLevelBelowSix(level) == 1 <= level /\ level < 6

\* line 98
ValidLevel(level) == 1 <= level /\ level <= 6

\* lines 81-93
EmptyLine(S, max) ==
    /\ pc = "loop"
    /\ Len(infile) < max
    /\ \E raw \in S :
         LET line == Strip(raw)
             para == FlushParagraph(paragraph_content)
             close == CloseLists(in_unordered_list, in_ordered_list)
         IN  /\ line = <<>>
             /\ out' = out \o para \o close
             /\ out_src' = out_src \o [i \in 1..Len(para) |-> para_src]
                                   \o NoSrc(close)
             /\ paragraph_content' = <<>>
             /\ para_src' = <<>>
             /\ in_unordered_list' = FALSE
             /\ in_ordered_list' = FALSE
             /\ Read(raw)
    /\ UNCHANGED <<io, pc, pushed>>

\* faulty variant: a heading resets the list flags, as an empty line does
HeadingLineClosing(S, max) ==
    /\ pc = "loop"
    /\ Len(infile) < max
    /\ \E raw \in S :
         LET line == Strip(raw)
             heading_level == Len(FirstToken(line))
             heading_content == Strip(From(line, heading_level))
         IN  /\ line # <<>>
             /\ StartsWith(line, <<"#">>)
             /\ IF ValidLevel(heading_level)
                THEN /\ out' = Append(out, HeadingHtml(heading_level, heading_content))
                     /\ out_src' = Append(out_src, <<LineNo>>)
                ELSE UNCHANGED <<out, out_src>>
             /\ Read(raw)
    /\ in_unordered_list' = FALSE
    /\ in_ordered_list' = FALSE
    /\ UNCHANGED <<io, pc, paragraph_content, para_src, pushed>>

\* lines 96-101
HeadingLine(S, max) ==
    /\ pc = "loop"
    /\ Len(infile) < max
    /\ \E raw \in S :
         LET line == Strip(raw)
             heading_level == Len(FirstToken(line))
             heading_content == Strip(From(line, heading_level))
         IN  /\ line # <<>>
             /\ StartsWith(line, <<"#">>)
             /\ IF ValidLevel(heading_level)
                THEN /\ out' = Append(out, HeadingHtml(heading_level, heading_content))
                     /\ out_src' = Append(out_src, <<LineNo>>)
                ELSE UNCHANGED <<out, out_src>>
             /\ Read(raw)
    /\ UNCHANGED <<io, pc, in_unordered_list, in_ordered_list, paragraph_content,
                   para_src, pushed>>

\* lines 104-111
UnorderedItem(S, max) ==
    /\ pc = "loop"
    /\ Len(infile) < max
    /\ \E raw \in S :
         LET line == Strip(raw)
             open == OpenList(in_unordered_list, UlOpen)
             list_item == Strip(From(line, 2))
         IN  /\ line # <<>>
             /\ ~StartsWith(line, <<"#">>)
             /\ StartsWith(line, <<"-", SP>>)
             /\ out' = out \o open \o <<ItemHtml(convert_line_to_html(list_item))>>
             /\ out_src' = out_src \o NoSrc(open) \o <<(<<LineNo>>)>>
             /\ Read(raw)
    /\ in_unordered_list' = TRUE
    /\ UNCHANGED <<io, pc, in_ordered_list, paragraph_content, para_src, pushed>>

\* lines 114-121
OrderedItem(S, max) ==
    /\ pc = "loop"
    /\ Len(infile) < max
    /\ \E raw \in S :
         LET line == Strip(raw)
             open == OpenList(in_ordered_list, OlOpen)
             list_item == Strip(From(line, 2))
         IN  /\ line # <<>>
             /\ ~StartsWith(line, <<"#">>)
             /\ ~StartsWith(line, <<"-", SP>>)
             /\ StartsWith(line, <<"*", SP>>)
             /\ out' = out \o open \o <<ItemHtml(convert_line_to_html(list_item))>>
             /\ out_src' = out_src \o NoSrc(open) \o <<(<<LineNo>>)>>
             /\ Read(raw)
    /\ in_ordered_list' = TRUE
    /\ UNCHANGED <<io, pc, in_unordered_list, paragraph_content, para_src, pushed>>

\* lines 124-130
ParagraphLine(S, max) ==
    /\ pc = "loop"
    /\ Len(infile) < max
    /\ \E raw \in S :
         LET line == Strip(raw)
             fragment == Fragment(paragraph_content, ParagraphInline(line))
         IN  /\ line # <<>>
             /\ ~StartsWith(line, <<"#">>)
             /\ ~StartsWith(line, <<"-", SP>>)
             /\ ~StartsWith(line, <<"*", SP>>)
             /\ paragraph_content' = Push(paragraph_content, fragment)
             /\ para_src' = Push(para_src, LineNo)
             /\ pushed' = Append(pushed, fragment)
             /\ Read(raw)
    /\ UNCHANGED <<io, pc, in_unordered_list, in_ordered_list, out, out_src>>

\* lines 133-140: the file is exhausted
EndOfInput ==
    /\ pc = "loop"
    /\ LET para == FlushParagraph(paragraph_content)
           close == CloseLists(in_unordered_list, in_ordered_list)
       IN  /\ out' = out \o para \o close
           /\ out_src' = out_src \o [i \in 1..Len(para) |-> para_src]
                                 \o NoSrc(close)
    /\ trace' = Append(trace, Snapshot)
    /\ pc' = "done"
    /\ UNCHANGED <<io, infile, in_unordered_list, in_ordered_list, paragraph_content,
                   para_src, pushed>>

\* Files of up to MaxLines lines drawn from FileLines
Next ==
    \/ EmptyLine(FileLines, MaxLines)
    \/ HeadingLine(FileLines, MaxLines)
    \/ UnorderedItem(FileLines, MaxLines)
    \/ OrderedItem(FileLines, MaxLines)
    \/ ParagraphLine(FileLines, MaxLines)
    \/ EndOfInput

Spec == Init /\ [][Next]_vars

\* Files of at most one line drawn from LineInputs
NextLine ==
    \/ EmptyLine(LineInputs, 1)
    \/ HeadingLine(LineInputs, 1)
    \/ UnorderedItem(LineInputs, 1)
    \/ OrderedItem(LineInputs, 1)
    \/ ParagraphLine(LineInputs, 1)
    \/ EndOfInput

SpecLine == Init /\ [][NextLine]_vars

----------------------------------------------------------------------------
(* The whole program: arguments, files, exit code *)

\* the variables of the line loop
conversion == <<infile, in_unordered_list, in_ordered_list, paragraph_content,
                out, trace, para_src, out_src, pushed>>

\* faulty variant: one argument is taken to be enough
TooFewArgsBelowOne(n) == n < 1

\* line 56: len(sys.argv) < 3
TooFewArgs(n) == n < 2

\* lines 56-62
CheckArgs ==
    /\ pc = "args"
    /\ IF TooFewArgs(argc)
       THEN /\ stderr' = Append(stderr, "Usage:")
            /\ exit_code' = <<1>>
            /\ pc' = "exited"
       ELSE /\ pc' = "input"
            /\ UNCHANGED <<stderr, exit_code>>
    /\ UNCHANGED <<argc, input_exists, outfile_state, raised, conversion>>

\* lines 65-67
CheckInput ==
    /\ pc = "input"
    /\ IF ~input_exists
       THEN /\ stderr' = Append(stderr, "Missing")
            /\ exit_code' = <<1>>
            /\ pc' = "exited"
       ELSE /\ pc' = "open"
            /\ UNCHANGED <<stderr, exit_code>>
    /\ UNCHANGED <<argc, input_exists, outfile_state, raised, conversion>>

\* lines 70-74: both files are opened
OpenFiles ==
    /\ pc = "open"
    /\ outfile_state' = "open"
    /\ pc' = "loop"
    /\ UNCHANGED <<argc, input_exists, stderr, exit_code, raised, conversion>>

\* faulty variant: a bare except, which catches SystemExit as well
CatchesAll(exception) == TRUE

\* The built-in exception classes (Python 3.11), each with its base classes
Bases ==
    [ BaseException |-> {}, BaseExceptionGroup |-> {"BaseException"},
      Exception |-> {"BaseException"}, GeneratorExit |-> {"BaseException"},
      KeyboardInterrupt |-> {"BaseException"},
      SystemExit |-> {"BaseException"}, ArithmeticError |-> {"Exception"},
      AssertionError |-> {"Exception"}, AttributeError |-> {"Exception"},
      BufferError |-> {"Exception"}, EOFError |-> {"Exception"},
      ImportError |-> {"Exception"}, LookupError |-> {"Exception"},
      MemoryError |-> {"Exception"}, NameError |-> {"Exception"},
      OSError |-> {"Exception"}, ReferenceError |-> {"Exception"},
      RuntimeError |-> {"Exception"}, StopAsyncIteration |-> {"Exception"},
      StopIteration |-> {"Exception"}, SyntaxError |-> {"Exception"},
      SystemError |-> {"Exception"}, TypeError |-> {"Exception"},
      ValueError |-> {"Exception"}, Warning |-> {"Exception"},
      BlockingIOError |-> {"OSError"}, BytesWarning |-> {"Warning"},
      ChildProcessError |-> {"OSError"}, ConnectionError |-> {"OSError"},
      DeprecationWarning |-> {"Warning"}, EncodingWarning |-> {"Warning"},
      ExceptionGroup |-> {"BaseExceptionGroup", "Exception"},
      FileExistsError |-> {"OSError"}, FileNotFoundError |-> {"OSError"},
      FloatingPointError |-> {"ArithmeticError"},
      FutureWarning |-> {"Warning"}, ImportWarning |-> {"Warning"},
      IndentationError |-> {"SyntaxError"}, IndexError |-> {"LookupError"},
      InterruptedError |-> {"OSError"}, IsADirectoryError |-> {"OSError"},
      KeyError |-> {"LookupError"}, ModuleNotFoundError |-> {"ImportError"},
      NotADirectoryError |-> {"OSError"},
      NotImplementedError |-> {"RuntimeError"},
      OverflowError |-> {"ArithmeticError"},
      PendingDeprecationWarning |-> {"Warning"},
      PermissionError |-> {"OSError"}, ProcessLookupError |-> {"OSError"},
      RecursionError |-> {"RuntimeError"}, ResourceWarning |-> {"Warning"},
      RuntimeWarning |-> {"Warning"}, SyntaxWarning |-> {"Warning"},
      TimeoutError |-> {"OSError"}, UnboundLocalError |-> {"NameError"},
      UnicodeError |-> {"ValueError"}, UnicodeWarning |-> {"Warning"},
      UserWarning |-> {"Warning"}, ZeroDivisionError |-> {"ArithmeticError"},
      BrokenPipeError |-> {"ConnectionError"},
      ConnectionAbortedError |-> {"ConnectionError"},
      ConnectionRefusedError |-> {"ConnectionError"},
      ConnectionResetError |-> {"ConnectionError"},
      TabError |-> {"IndentationError"},
      UnicodeDecodeError |-> {"UnicodeError"},
      UnicodeEncodeError |-> {"UnicodeError"},
      UnicodeTranslateError |-> {"UnicodeError"} ]

\* issubclass(c, b)
RECURSIVE Derives(_, _)
Derives(c, b) == c = b \/ \E base \in Bases[c] : Derives(base, b)

\* line 143: except Exception catches the classes that derive from Exception.
\* Of the classes outside it the program raises SystemExit only (line 142): a
\* KeyboardInterrupt comes from a signal sent to the process, which ends it from
\* outside, and no action here sends one.
Catches(exception) == Derives(exception, "Exception")

\* Leaving the with block of line 70 on an exception: outfile is closed, and
\* the close, which flushes what the writes buffered, raises nothing or, the
\* device failing, an OSError of its own
Closing == {<<>>, <<"OSError">>}

\* lines 143-145 for the exceptions raised one after the other inside the try
\* block, the last of which leaves it: the handler's message and exit code if
\* that one is caught, its own exit code if not
Propagate(exceptions, code) ==
    /\ raised' = raised \o exceptions
    /\ IF Catches(exceptions[Len(exceptions)])
       THEN /\ stderr' = Append(stderr, "Error:")
            /\ exit_code' = <<1>>
       ELSE /\ exit_code' = <<code>>
            /\ UNCHANGED stderr
    /\ pc' = "exited"

\* lines 70-71: an open() raises (permission denied, no directory for the
\* output path); the output file is not made
OpenFails ==
    /\ pc = "open"
    /\ Propagate(<<"OSError">>, 1)
    /\ UNCHANGED <<argc, input_exists, outfile_state, conversion>>

\* line 76: reading the next line raises (decoding error, read error) between
\* two iterations; the with statement closes both files, which may raise too
ReadFails ==
    /\ pc = "loop"
    /\ \E exception \in {"OSError", "UnicodeDecodeError"}, close \in Closing :
         Propagate(<<exception>> \o close, 1)
    /\ outfile_state' = "closed"
    /\ UNCHANGED <<argc, input_exists, conversion>>

\* One step of an iteration: an outfile.write call or an assignment
Write(text, src) == [kind |-> "write", text |-> text, src |-> src]
Set(kind) == [kind |-> kind, text |-> <<>>, src |-> <<>>]

\* lines 82-92, step by step
EmptySteps ==
    (IF paragraph_content # <<>>
     THEN <<Write(ParagraphHtml(Strip(Join(paragraph_content))), para_src),
            Set("paragraph_content = []")>>
     ELSE <<>>)
    \o (IF in_unordered_list
        THEN <<Write(UlClose, <<>>), Set("in_unordered_list = False")>>
        ELSE <<>>)
    \o (IF in_ordered_list
        THEN <<Write(OlClose, <<>>), Set("in_ordered_list = False")>>
        ELSE <<>>)

\* lines 97-100, step by step
HeadingSteps(line) ==
    LET heading_level == Len(FirstToken(line))
        heading_content == Strip(From(line, heading_level))
    IN  IF ValidLevel(heading_level)
        THEN <<Write(HeadingHtml(heading_level, heading_content), <<LineNo>>)>>
        ELSE <<>>

\* lines 105-110 and 115-120, step by step
ItemSteps(line, open, tag, set) ==
    (IF ~open THEN <<Write(tag, <<>>), Set(set)>> ELSE <<>>)
    \o <<Write(ItemHtml(convert_line_to_html(Strip(From(line, 2)))), <<LineNo>>)>>

\* lines 124-130, step by step: the branch writes nothing
ParagraphSteps(line) ==
    <<[kind |-> "paragraph_content.append",
       text |-> Fragment(paragraph_content, ParagraphInline(line)),
       src |-> LineNo]>>

\* lines 78-130: the steps of the iteration that processes the line raw
Steps(raw) ==
    LET line == Strip(raw)
    IN  IF line = <<>> THEN EmptySteps
        ELSE IF StartsWith(line, <<"#">>) THEN HeadingSteps(line)
        ELSE IF StartsWith(line, <<"-", SP>>)
             THEN ItemSteps(line, in_unordered_list, UlOpen, "in_unordered_list = True")
        ELSE IF StartsWith(line, <<"*", SP>>)
             THEN ItemSteps(line, in_ordered_list, OlOpen, "in_ordered_list = True")
        ELSE ParagraphSteps(line)

\* lines 133-140, step by step: nothing is assigned
EndSteps ==
    (IF paragraph_content # <<>>
     THEN <<Write(ParagraphHtml(Strip(Join(paragraph_content))), para_src)>>
     ELSE <<>>)
    \o (IF in_unordered_list THEN <<Write(UlClose, <<>>)>> ELSE <<>>)
    \o (IF in_ordered_list THEN <<Write(OlClose, <<>>)>> ELSE <<>>)

\* What the steps of an iteration change
Locals ==
    [ul |-> in_unordered_list, ol |-> in_ordered_list,
     para |-> paragraph_content, para_src |-> para_src,
     out |-> out, out_src |-> out_src, pushed |-> pushed]

Do(st, step) ==
    CASE step.kind = "write" ->
           [st EXCEPT !.out = Append(@, step.text), !.out_src = Append(@, step.src)]
      [] step.kind = "paragraph_content = []" ->
           [st EXCEPT !.para = <<>>, !.para_src = <<>>]
      [] step.kind = "in_unordered_list = False" -> [st EXCEPT !.ul = FALSE]
      [] step.kind = "in_ordered_list = False" -> [st EXCEPT !.ol = FALSE]
      [] step.kind = "in_unordered_list = True" -> [st EXCEPT !.ul = TRUE]
      [] step.kind = "in_ordered_list = True" -> [st EXCEPT !.ol = TRUE]
      [] step.kind = "paragraph_content.append" ->
           [st EXCEPT !.para = Push(@, step.text), !.para_src = Push(@, step.src),
                      !.pushed = Append(@, step.text)]

\* The steps taken one after the other
RECURSIVE Run(_, _)
Run(st, steps) ==
    IF steps = <<>> THEN st ELSE Run(Do(st, Head(steps)), Tail(steps))

\* The steps before the n-th have been taken, the n-th is a write that raises
StopsAt(steps, n) ==
    /\ steps[n].kind = "write"
    /\ LET st == Run(Locals, SubSeq(steps, 1, n - 1))
       IN  /\ in_unordered_list' = st.ul
           /\ in_ordered_list' = st.ol
           /\ paragraph_content' = st.para
           /\ para_src' = st.para_src
           /\ out' = st.out
           /\ out_src' = st.out_src
           /\ pushed' = st.pushed

\* lines 78-130: an outfile.write raises inside an iteration (disk full, a
\* character the output encoding lacks), after the steps before it have run;
\* the with statement closes both files, which may raise too
WriteFails(S, max) ==
    /\ pc = "loop"
    /\ Len(infile) < max
    /\ \E raw \in S : \E n \in 1..Len(Steps(raw)) :
         /\ StopsAt(Steps(raw), n)
         /\ Read(raw)
    /\ \E exception \in {"OSError", "UnicodeEncodeError"}, close \in Closing :
         Propagate(<<exception>> \o close, 1)
    /\ outfile_state' = "closed"
    /\ UNCHANGED <<argc, input_exists>>

\* lines 133-140: an outfile.write raises after the last line; the with
\* statement closes both files, which may raise too
EndFails ==
    /\ pc = "loop"
    /\ \E n \in 1..Len(EndSteps) : StopsAt(EndSteps, n)
    /\ trace' = Append(trace, Snapshot)
    /\ \E exception \in {"OSError", "UnicodeEncodeError"}, close \in Closing :
         Propagate(<<exception>> \o close, 1)
    /\ outfile_state' = "closed"
    /\ UNCHANGED <<argc, input_exists, infile>>

\* lines 76-140: a read or a write raises
ConversionFails(S, max) == ReadFails \/ WriteFails(S, max) \/ EndFails

\* line 71, on leaving the with block after line 140: closing outfile flushes
\* what the writes buffered, and the flush raises (disk full); line 142 is not
\* reached
CloseFails ==
    /\ pc = "done"
    /\ outfile_state' = "closed"
    /\ Propagate(<<"OSError">>, 1)
    /\ UNCHANGED <<argc, input_exists, conversion>>

\* line 142: the with statement has closed both files; sys.exit(0)
Exit ==
    /\ pc = "done"
    /\ outfile_state' = "closed"
    /\ Propagate(<<"SystemExit">>, 0)
    /\ UNCHANGED <<argc, input_exists, conversion>>

InitMain ==
    /\ pc = "args"
    /\ argc \in 0..MaxArgs
    /\ input_exists \in BOOLEAN
    /\ outfile_state = "untouched"
    /\ stderr = <<>>
    /\ exit_code = <<>>
    /\ raised = <<>>
    /\ Fresh

\* The program run on files of up to MaxMainLines lines drawn from FileLines
NextMain ==
    \/ CheckArgs
    \/ CheckInput
    \/ OpenFiles
    \/ OpenFails
    \/ EmptyLine(FileLines, MaxMainLines)
    \/ HeadingLine(FileLines, MaxMainLines)
    \/ UnorderedItem(FileLines, MaxMainLines)
    \/ OrderedItem(FileLines, MaxMainLines)
    \/ ParagraphLine(FileLines, MaxMainLines)
    \/ ConversionFails(FileLines, MaxMainLines)
    \/ EndOfInput
    \/ CloseFails
    \/ Exit

SpecMain == InitMain /\ [][NextMain]_vars

\* The program is one sequential process: it takes its next step
FairMain == SpecMain /\ WF_vars(NextMain)

----------------------------------------------------------------------------
(* The example document *)

\* "# Title\n\n- one\n- two\n\nSome **bold** text.\n", line by line
Doc ==
    << <<"#", SP, "T", "i", "t", "l", "e", NL>>,
       <<NL>>,
       <<"-", SP, "o", "n", "e", NL>>,
       <<"-", SP, "t", "w", "o", NL>>,
       <<NL>>,
       <<"S", "o", "m", "e", SP, "*", "*", "b", "o", "l", "d", "*", "*", SP,
         "t", "e", "x", "t", ".", NL>> >>

DocLines == {Doc[i] : i \in 1..Len(Doc)}

\* Files of up to Len(Doc) lines drawn from the lines of Doc, Doc among them
NextDoc ==
    \/ EmptyLine(DocLines, Len(Doc))
    \/ HeadingLine(DocLines, Len(Doc))
    \/ UnorderedItem(DocLines, Len(Doc))
    \/ ParagraphLine(DocLines, Len(Doc))
    \/ EndOfInput

SpecDoc == Init /\ [][NextDoc]_vars

----------------------------------------------------------------------------
(* Reading the history *)

\* The events processed so far: line k is event k, the end of input the one after
Events == 1..Len(trace)

\* The strings written while event e was processed
Seg(e) ==
    SubSeq(out, trace[e].nout + 1,
           IF e < Len(trace) THEN trace[e + 1].nout ELSE Len(out))

\* The strings written from event e to event f, both included
SegRange(e, f) ==
    SubSeq(out, trace[e].nout + 1,
           IF f < Len(trace) THEN trace[f + 1].nout ELSE Len(out))

IsBlank(raw) == Strip(raw) = <<>>
IsHashed(raw) == StartsWith(Strip(raw), <<"#">>)
IsItem(raw, marker) ==
    ~IsBlank(raw) /\ ~IsHashed(raw) /\ StartsWith(Strip(raw), <<marker, SP>>)
IsUnordered(raw) == IsItem(raw, "-")
IsOrdered(raw) == ~IsUnordered(raw) /\ IsItem(raw, "*")
IsText(raw) ==
    ~IsBlank(raw) /\ ~IsHashed(raw) /\ ~IsUnordered(raw) /\ ~IsOrdered(raw)

\* The text of a list item line
ItemText(raw) == Strip(From(Strip(raw), 2))

IsParagraphHtml(written) == written[1] = "<p>"
IsHeadingHtml(written) == \E n \in 1..6 : written[1] = HOpen(n)
IsItemHtml(written) == written[1] = "<li>"

\* What lies between the opening and the closing tag of a written element
Inner(written) == SubSeq(written, 2, Len(written) - 2)

\* How many of the first n strings written are the string x
Written(x, n) == Cardinality({i \in 1..n : out[i] = x})

RECURSIVE Flat(_)
Flat(parts) == IF parts = <<>> THEN <<>> ELSE Head(parts) \o Flat(Tail(parts))

NotSpace(c) == c # SP

\* s holds sub as a run of consecutive elements
Contains(s, sub) ==
    \E i \in 0..(Len(s) - Len(sub)) : SubSeq(s, i + 1, i + Len(sub)) = sub

----------------------------------------------------------------------------
(* C1: at most one list is open: in_unordered_list and in_ordered_list are *)
(* never both true.                                                        *)
C1_AtMostOneListOpen == ~(in_unordered_list /\ in_ordered_list)

(* C2: the paragraph buffer is non-empty only if no list is open.          *)
C2_ParagraphOnlyOutsideList ==
    paragraph_content # <<>> => ~(in_unordered_list \/ in_ordered_list)

(* C3: the output keeps the input's order: text that comes from line i is  *)
(* written before text that comes from a later line j.                     *)
C3_OutputInInputOrder ==
    \A m, n \in 1..Len(out) :
      \A x \in 1..Len(out_src[m]), y \in 1..Len(out_src[n]) :
        out_src[m][x] < out_src[n][y] => (m < n \/ (m = n /\ x < y))

(* C4: no <p> element and no heading element is written while a <ul> or an *)
(* <ol> is open and unclosed.                                              *)
C4_NoBlockInsideList ==
    \A i \in 1..Len(out) :
      IsParagraphHtml(out[i]) \/ IsHeadingHtml(out[i]) =>
        /\ Written(UlOpen, i) = Written(UlClose, i)
        /\ Written(OlOpen, i) = Written(OlClose, i)

(* C5: when the conversion has finished, as many </ul> as <ul> and as many *)
(* </ol> as <ol> have been written, the <p> elements written hold exactly  *)
(* the fragments ever pushed into the paragraph buffer, each once and in   *)
(* order, and at the end of input the pending paragraph was written before *)
(* the pending list was closed.                                            *)
C5_ParagraphTexts ==
    [i \in 1..Len(SelectSeq(out, IsParagraphHtml)) |->
        Inner(SelectSeq(out, IsParagraphHtml)[i])]

C5_EverythingClosedOnce ==
    pc = "done" =>
      LET last == trace[Len(trace)]
          end == Seg(Len(trace))
      IN  /\ Written(UlOpen, Len(out)) = Written(UlClose, Len(out))
          /\ Written(OlOpen, Len(out)) = Written(OlClose, Len(out))
          /\ SelectSeq(Flat(C5_ParagraphTexts), NotSpace) = SelectSeq(Flat(pushed), NotSpace)
          /\ Len(C5_ParagraphTexts) <= Len(pushed)
          /\ Len(SelectSeq(end, IsParagraphHtml)) = IF last.para # <<>> THEN 1 ELSE 0
          /\ last.para # <<>> => IsParagraphHtml(end[1])
          /\ Len(end) = (IF last.para # <<>> THEN 1 ELSE 0)
                        + (IF last.ul THEN 1 ELSE 0) + (IF last.ol THEN 1 ELSE 0)

C5_Witness ==
    /\ pc = "done"
    /\ trace[Len(trace)].para # <<>>
    /\ trace[Len(trace)].ul
    /\ Len(pushed) >= 2
    /\ Len(C5_ParagraphTexts) = 2

(* C6: a run of k >= 1 consecutive item lines of one list type, starting   *)
(* with no list open and followed by a blank line or the end of input,     *)
(* produces one opening tag, then the k <li> elements in input order, then *)
(* one matching closing tag.                                               *)
C6_IsListHtml(written) == ~IsParagraphHtml(written)

C6_Run(i, j, marker) ==
    /\ i <= j
    /\ \A k \in i..j : IF marker = "-" THEN IsUnordered(infile[k])
                                        ELSE IsOrdered(infile[k])
    /\ ~trace[i].ul /\ ~trace[i].ol
    /\ j + 1 \in Events
    /\ IF j < Len(infile) THEN IsBlank(infile[j + 1]) ELSE pc = "done"

C6_Expected(i, j, marker) ==
    <<IF marker = "-" THEN UlOpen ELSE OlOpen>>
    \o [m \in 1..(j - i + 1) |->
          ItemHtml(convert_line_to_html(ItemText(infile[i + m - 1])))]
    \o <<IF marker = "-" THEN UlClose ELSE OlClose>>

C6_ListRun ==
    \A i, j \in 1..Len(infile) : \A marker \in {"-", "*"} :
      C6_Run(i, j, marker) =>
        SelectSeq(SegRange(i, j + 1), C6_IsListHtml) = C6_Expected(i, j, marker)

C6_Witness ==
    \E i, j \in 1..Len(infile) :
      /\ i < j
      /\ C6_Run(i, j, "-")
      /\ infile[i] # infile[j]
      /\ IsBlank(infile[j + 1])

----------------------------------------------------------------------------
(* Lines and their inline HTML *)

\* The number of leading '#' of a string
LeadHashes(s) == Max({n \in 0..Len(s) : StartsWith(s, Hashes(n))})

IsListOrText(raw) == IsUnordered(raw) \/ IsOrdered(raw) \/ IsText(raw)

\* The content that inline substitution is applied to
InlineContent(raw) == IF IsText(raw) THEN Strip(raw) ELSE ItemText(raw)

\* The inline HTML made of line k (a list item or a paragraph line)
LineHtml(k) ==
    IF IsText(infile[k])
    THEN LET f == pushed[Cardinality({j \in 1..k : IsText(infile[j])})]
         IN  IF f[1] = "<br/>" THEN Tail(f) ELSE f
    ELSE Inner(Seg(k)[Len(Seg(k))])

OpenTag(d) == IF d = "*" THEN "<b>" ELSE "<em>"
CloseTag(d) == IF d = "*" THEN "</b>" ELSE "</em>"

\* The text an inline HTML string was made from: each tag back to its delimiter
RECURSIVE Untag(_)
Untag(html) ==
    IF html = <<>> THEN <<>>
    ELSE (IF Head(html) \in {"<b>", "</b>"} THEN <<"*", "*">>
          ELSE IF Head(html) \in {"<em>", "</em>"} THEN <<"_", "_">>
          ELSE <<Head(html)>>) \o Untag(Tail(html))

\* The delimiters dd of c, counted left to right without overlap
RECURSIVE Occurrences(_, _)
Occurrences(c, d) ==
    IF Find(c, d) = 0 THEN 0 ELSE 1 + Occurrences(From(c, Find(c, d) + 1), d)

\* The delimited pairs ddXdd of c, X non-empty and free of delimiters, each as
\* <<index of the opening delimiter, index of the closing delimiter>>
Pairs(c, d) ==
    {pq \in (1..Len(c)) \X (1..Len(c)) :
        /\ pq[1] + 3 <= pq[2] /\ pq[2] + 1 <= Len(c)
        /\ c[pq[1]] = d /\ c[pq[1] + 1] = d
        /\ c[pq[2]] = d /\ c[pq[2] + 1] = d
        /\ Find(SubSeq(c, pq[1] + 2, pq[2] - 1), "*") = 0
        /\ Find(SubSeq(c, pq[1] + 2, pq[2] - 1), "_") = 0}

FirstPair(c, d) ==
    CHOOSE pq \in Pairs(c, d) :
      \A o \in Pairs(c, d) : pq[1] < o[1] \/ (pq[1] = o[1] /\ pq[2] <= o[2])

\* In html the pair pq of c stands as <tag>X</tag>, the text before and after it
\* being that of c
Replaced(html, c, pq, d) ==
    \E i, j \in 1..Len(html) :
      /\ i < j
      /\ html[i] = OpenTag(d) /\ html[j] = CloseTag(d)
      /\ SubSeq(html, i + 1, j - 1) = SubSeq(c, pq[1] + 2, pq[2] - 1)
      /\ Untag(SubSeq(html, 1, i - 1)) = SubSeq(c, 1, pq[1] - 1)
      /\ Untag(SubSeq(html, j + 1, Len(html))) = SubSeq(c, pq[2] + 2, Len(c))

----------------------------------------------------------------------------
(* C7: the line made of n '#' (n in 1..6), a space and X, X without        *)
(* surrounding whitespace, writes <hn>X</hn> and nothing else; a line      *)
(* whose first token is 7 or more '#' writes no heading element.           *)
C7_Headings ==
    \A k \in 1..Len(infile) :
      LET raw == infile[k]
          n == LeadHashes(raw)
          X == SubSeq(raw, n + 2, Len(raw) - 1)
      IN  /\ ( /\ n \in 1..6 /\ Len(raw) >= n + 2
               /\ raw[n + 1] = SP /\ raw[Len(raw)] = NL
               /\ Strip(X) = X )
              => Seg(k) = << <<HOpen(n)>> \o X \o <<HClose(n), NL>> >>
          /\ ( /\ IsHashed(raw)
               /\ LeadHashes(Strip(raw)) >= 7
               /\ FirstToken(Strip(raw)) = Hashes(LeadHashes(Strip(raw))) )
              => \A i \in 1..Len(Seg(k)) : ~IsHeadingHtml(Seg(k)[i])

C7_Witness ==
    /\ pc = "done"
    /\ infile = << <<"#", "#", "#", "#", "#", "#", SP, "a", SP, "b", NL>> >>
    /\ out = << <<"<h6>", "a", SP, "b", "</h6>", NL>> >>

(* C8: a '#'-prefixed line whose level is outside 1..6 is not dropped: its *)
(* text appears in the output once the conversion has finished.            *)
C8_InvalidHeadingKept ==
    pc = "done" =>
      \A k \in 1..Len(infile) :
        ( /\ IsHashed(infile[k])
          /\ ~(Len(FirstToken(Strip(infile[k]))) \in 1..6) )
        => \E i \in 1..Len(out) : Contains(out[i], Strip(infile[k]))

(* C9: on a paragraph line or a list item line whose content holds a       *)
(* delimiter ** (or __) with no second delimiter of that kind to match it, *)
(* the delimiter stays literal: no <b>, </b> (no <em>, </em>) is written.  *)
C9_UnmatchedStaysLiteral ==
    \A k \in 1..Len(infile) : \A d \in {"*", "_"} :
      ( /\ IsListOrText(infile[k])
        /\ Occurrences(InlineContent(infile[k]), d) = 1 )
      => /\ \A i \in 1..Len(LineHtml(k)) :
              LineHtml(k)[i] \notin {OpenTag(d), CloseTag(d)}
         /\ Contains(LineHtml(k), <<d, d>>)

(* C10 as claimed: on a paragraph line or a list item line the first pair  *)
(* **X** (__X__), X non-empty and free of delimiters, is replaced by       *)
(* <b>X</b> (<em>X</em>), whatever else is on the line; a paragraph that   *)
(* is only **X** is written as <p><b>X</b></p>.                            *)
C10_FirstPairReplaced ==
    \A k \in 1..Len(infile) : \A d \in {"*", "_"} :
      LET c == InlineContent(infile[k])
      IN  ( /\ IsListOrText(infile[k])
            /\ Pairs(c, d) # {} )
          => /\ Replaced(LineHtml(k), c, FirstPair(c, d), d)
             /\ ( /\ pc = "done" /\ Len(infile) = 1 /\ IsText(infile[k])
                  /\ FirstPair(c, d) = <<1, Len(c) - 1>> )
                => out = << <<"<p>", OpenTag(d)>> \o SubSeq(c, 3, Len(c) - 2)
                            \o <<CloseTag(d), "</p>", NL>> >>

\* The pairs ddXdd of c that open at the first dd of c, X non-empty and without
\* any '*' or '_'
PlainPairs(c, d) ==
    {pq \in Pairs(c, d) :
        /\ pq[1] = Find(c, d)
        /\ \A i \in (pq[1] + 2)..(pq[2] - 1) : c[i] \notin {"*", "_"}}

(* C10 amended: on a paragraph line or a list item line, a pair **X**      *)
(* (__X__) that opens at the first ** (__) of the line, X non-empty and    *)
(* without any '*' or '_', is replaced by <b>X</b> (<em>X</em>), whatever  *)
(* else is on the line; a paragraph that is only such a pair is written as *)
(* <p><b>X</b></p>.                                                        *)
C10_PlainFirstPairReplaced ==
    \A k \in 1..Len(infile) : \A d \in {"*", "_"} :
      LET c == InlineContent(infile[k])
      IN  IsListOrText(infile[k]) =>
            \A pq \in PlainPairs(c, d) :
              /\ Replaced(LineHtml(k), c, pq, d)
              /\ ( /\ pc = "done" /\ Len(infile) = 1 /\ IsText(infile[k])
                   /\ pq = <<1, Len(c) - 1>> )
                 => out = << <<"<p>", OpenTag(d)>> \o SubSeq(c, 3, Len(c) - 2)
                             \o <<CloseTag(d), "</p>", NL>> >>

C10_Witness ==
    /\ pc = "done"
    /\ infile = << <<"_", "_", "*", "*", "a", "*", "*", NL>> >>
    /\ PlainPairs(InlineContent(infile[1]), "*") = {<<3, 6>>}
    /\ out = << <<"<p>", "<em>", "<b>", "a", "</b>", "</p>", NL>> >>

----------------------------------------------------------------------------
(* C11: a run of k >= 1 consecutive paragraph-text lines, ended by a blank *)
(* line or the end of input, produces exactly one <p> element whose        *)
(* content is the first fragment followed, for each later fragment in      *)
(* input order, by a space, <br/> and that fragment.                       *)
C11_Run(i, j) ==
    /\ i <= j
    /\ \A k \in i..j : IsText(infile[k])
    /\ i = 1 \/ ~IsText(infile[i - 1])
    /\ j + 1 \in Events
    /\ IF j < Len(infile) THEN IsBlank(infile[j + 1]) ELSE pc = "done"

RECURSIVE C11_Content(_, _)
C11_Content(i, j) ==
    IF i = j THEN ParagraphInline(Strip(infile[i]))
    ELSE C11_Content(i, j - 1) \o <<SP, "<br/>">>
           \o ParagraphInline(Strip(infile[j]))

C11_ParagraphRun ==
    \A i, j \in 1..Len(infile) :
      C11_Run(i, j) =>
        SelectSeq(SegRange(i, j + 1), IsParagraphHtml)
          = << <<"<p>">> \o C11_Content(i, j) \o <<"</p>", NL>> >>

----------------------------------------------------------------------------
(* C12: the output file is opened only after both checks have passed: a    *)
(* run with fewer than 2 arguments, or whose input path does not exist,    *)
(* ends with exit code 1 and never creates or modifies the output path.    *)
C12_OutputOnlyAfterChecks ==
    (argc < 2 \/ ~input_exists) =>
      /\ outfile_state = "untouched"
      /\ out = <<>>
      /\ pc \in {"args", "input", "exited"}
      /\ pc = "exited" => exit_code = <<1>>

C12_Witness ==
    /\ pc = "exited"
    /\ argc = 2
    /\ ~input_exists
    /\ stderr = <<"Missing">>
    /\ exit_code = <<1>>

(* C13: every run ends, with exit code 0 or 1; the code is 0 exactly when  *)
(* both checks passed and the conversion ran to its end with no exception: *)
(* a usage error, a missing input or an exception in the conversion gives  *)
(* 1, and the SystemExit of the successful exit is not caught.             *)
C13_Completed ==
    /\ Len(trace) = Len(infile) + 1
    /\ \A i \in 1..Len(raised) : raised[i] = "SystemExit"

C13_ExitCode ==
    /\ <>(pc = "exited")
    /\ [](pc = "exited" =>
            /\ exit_code \in {<<0>>, <<1>>}
            /\ exit_code = <<0>> <=>
                 (argc >= 2 /\ input_exists /\ C13_Completed))
    /\ [](pc # "exited" => exit_code = <<>>)

C13_Witness ==
    /\ pc = "exited"
    /\ exit_code = <<0>>
    /\ raised = <<"SystemExit">>
    /\ stderr = <<>>
    /\ Len(out) >= 2

----------------------------------------------------------------------------
(* C14: for the six lines '# Title', '', '- one', '- two', '',             *)
(* 'Some **bold** text.' the output is <h1>Title</h1>, <ul>, <li>one</li>, *)
(* <li>two</li>, </ul>, <p>Some <b>bold</b> text.</p>, each ended by a     *)
(* newline, and nothing else.                                              *)
C14_EndToEnd ==
    (pc = "done" /\ infile = Doc) =>
      out = << <<"<h1>", "T", "i", "t", "l", "e", "</h1>", NL>>,
               <<"<ul>", NL>>,
               <<"<li>", "o", "n", "e", "</li>", NL>>,
               <<"<li>", "t", "w", "o", "</li>", NL>>,
               <<"</ul>", NL>>,
               <<"<p>", "S", "o", "m", "e", SP, "<b>", "b", "o", "l", "d", "</b>",
                 SP, "t", "e", "x", "t", ".", "</p>", NL>> >>

C14_Witness ==
    /\ pc = "done"
    /\ infile = Doc
    /\ Len(out) = 6

----------------------------------------------------------------------------
(* C15: on a line that starts with '#', the heading level is the number of *)
(* leading '#' of the first space-delimited token (a heading only when it  *)
(* is 1..6), and the content is the rest of the line after that token,     *)
(* stripped; a token of k '#' followed by other characters has level k.    *)
C15_LevelCountsHashes ==
    \A k \in 1..Len(infile) :
      LET line == Strip(infile[k])
          token == FirstToken(line)
          level == LeadHashes(token)
          content == Strip(From(line, Len(token)))
      IN  IsHashed(infile[k]) =>
            IF level \in 1..6
            THEN Seg(k) = << <<HOpen(level)>> \o content \o <<HClose(level), NL>> >>
            ELSE Seg(k) = <<>>

----------------------------------------------------------------------------
\* The flags and the buffer just after event k was processed
After(k) == IF k < Len(trace) THEN trace[k + 1] ELSE Snapshot

(* C16: a heading line, valid or not, leaves in_unordered_list,            *)
(* in_ordered_list and the paragraph buffer as they were: it closes no     *)
(* open list and flushes no pending paragraph.                             *)
C16_HeadingKeepsState ==
    \A k \in 1..Len(infile) :
      IsHashed(infile[k]) =>
        /\ After(k).ul = trace[k].ul
        /\ After(k).ol = trace[k].ol
        /\ After(k).para = trace[k].para

C16_Witness ==
    \E k \in 1..Len(infile) :
      /\ IsHashed(infile[k])
      /\ Len(Seg(k)) = 1
      /\ trace[k].ul /\ trace[k].ol
      /\ trace[k].para # <<>>
      /\ in_unordered_list /\ in_ordered_list /\ paragraph_content # <<>>

(* C17: an empty line writes the pending paragraph, if any, as one <p>,    *)
(* then the closing tag of each open list, and nothing else; it leaves the *)
(* paragraph buffer empty and both list flags false.                       *)
C17_EmptyLineResets ==
    \A k \in 1..Len(infile) :
      IsBlank(infile[k]) =>
        /\ Seg(k) =
             (IF trace[k].para # <<>>
              THEN << <<"<p>">> \o Join(trace[k].para) \o <<"</p>", NL>> >>
              ELSE <<>>)
             \o (IF trace[k].ul THEN <<UlClose>> ELSE <<>>)
             \o (IF trace[k].ol THEN <<OlClose>> ELSE <<>>)
        /\ After(k).para = <<>>
        /\ ~After(k).ul
        /\ ~After(k).ol

C17_Witness ==
    /\ pc = "loop"
    /\ Len(infile) = 4
    /\ IsBlank(infile[4])
    /\ trace[4].para # <<>> /\ trace[4].ul /\ trace[4].ol
    /\ Len(Seg(4)) = 3
    /\ paragraph_content = <<>> /\ ~in_unordered_list /\ ~in_ordered_list

\* The flag of a list agrees with the tags written for it
C18_Agrees(flag, open, close) ==
    Written(open, Len(out)) = Written(close, Len(out)) + (IF flag THEN 1 ELSE 0)

\* No closing tag without an earlier opening tag still unclosed
C18_NeverClosedUnopened(open, close) ==
    \A i \in 1..Len(out) : Written(close, i) <= Written(open, i)

(* C18 as claimed: in every reachable state in_unordered_list is true      *)
(* exactly when the output holds one more <ul> than </ul> (equal counts    *)
(* when false), likewise in_ordered_list for <ol>, and no closing list tag *)
(* is written without an earlier unclosed opening tag.                     *)
C18_FlagsMatchOutput ==
    /\ C18_Agrees(in_unordered_list, UlOpen, UlClose)
    /\ C18_Agrees(in_ordered_list, OlOpen, OlClose)
    /\ C18_NeverClosedUnopened(UlOpen, UlClose)
    /\ C18_NeverClosedUnopened(OlOpen, OlClose)

(* C18 amended: in every state of the line loop the flags agree with the   *)
(* output as claimed; the end-of-input flush writes the closing tags and   *)
(* leaves the flags as they were, so after it the counts are equal         *)
(* whatever the flags; no closing list tag is ever written without an      *)
(* earlier unclosed opening tag.                                           *)
C18_FlagsMatchOutputInLoop ==
    /\ pc = "loop" =>
         /\ C18_Agrees(in_unordered_list, UlOpen, UlClose)
         /\ C18_Agrees(in_ordered_list, OlOpen, OlClose)
    /\ pc = "done" =>
         /\ C18_Agrees(FALSE, UlOpen, UlClose)
         /\ C18_Agrees(FALSE, OlOpen, OlClose)
         /\ in_unordered_list = trace[Len(trace)].ul
         /\ in_ordered_list = trace[Len(trace)].ol
    /\ C18_NeverClosedUnopened(UlOpen, UlClose)
    /\ C18_NeverClosedUnopened(OlOpen, OlClose)

C18_Witness ==
    /\ pc = "loop"
    /\ in_unordered_list /\ ~in_ordered_list
    /\ Written(UlOpen, Len(out)) = 2
    /\ Written(UlClose, Len(out)) = 1

\* The list tags of written are properly nested, open being the tags opened
\* and not yet closed, innermost last
RECURSIVE C19_Nested(_, _)
C19_Nested(written, open) ==
    IF written = <<>> THEN TRUE
    ELSE LET w == Head(written)
         IN  IF w \in {UlOpen, OlOpen}
             THEN C19_Nested(Tail(written), Append(open, w))
             ELSE IF w \in {UlClose, OlClose}
             THEN /\ open # <<>>
                  /\ open[Len(open)] = (IF w = UlClose THEN UlOpen ELSE OlOpen)
                  /\ C19_Nested(Tail(written), SubSeq(open, 1, Len(open) - 1))
             ELSE C19_Nested(Tail(written), open)

(* C19: the list tags of the output are properly nested: a closing </ul>   *)
(* or </ol> always matches the most recently opened list tag that is still *)
(* unclosed.                                                               *)
C19_ListTagsNested == C19_Nested(out, <<>>)

(* C20: inline substitution is one rule: the inline HTML made of a content *)
(* string as a list item (convert_line_to_html) is the inline HTML made of *)
(* the same string as a paragraph line (the positional replace).           *)
C20_OneInlineRule ==
    \A k \in 1..Len(infile) :
      LET c == InlineContent(infile[k])
      IN  /\ IsUnordered(infile[k]) \/ IsOrdered(infile[k]) =>
               LineHtml(k) = ParagraphInline(c)
          /\ IsText(infile[k]) => LineHtml(k) = convert_line_to_html(c)

====
